---- MODULE Spec2Model ----
(***************************************************************************)
(* Model of src/dataProcess.py: the data cleaning pipeline process_data    *)
(* and its stages, over a pandas DataFrame.                                *)
(*                                                                         *)
(* A DataFrame is a sequence of rows plus the set of its column names.  A  *)
(* row is [index |-> the pandas row label, v |-> [column -> cell]].  A     *)
(* cell is [k, n, d, s]: k = "num" is the number n/d in lowest terms with  *)
(* d > 0 (an int64 has d = 1; a float64 is represented by the rational it  *)
(* holds), k = "nan" is the missing value NaN, k = "str" is the string     *)
(* whose character codes are the sequence s.                               *)
(***************************************************************************)
EXTENDS Integers, Sequences, FiniteSets, TLC

VARIABLES input, df, columns, pc, run, issues, error

vars == <<input, df, columns, pc, run, issues, error>>

(* ------------------------------ bounds --------------------------------- *)
\* largest number of rows of an input dataset whose rows differ in the sort key
MaxRows == 3

\* largest number of rows of an input dataset whose rows differ in other cells
MaxValRows == 2

(* ------------------------------- cells --------------------------------- *)
Abs(x) == IF x < 0 THEN -x ELSE x

RECURSIVE GCD(_, _)
GCD(a, b) == IF b = 0 THEN a ELSE GCD(b, a % b)

\* the rational n/d (d # 0) in lowest terms with a positive denominator
Num(n, d) ==
    LET g == GCD(Abs(n), Abs(d))
        sg == IF d < 0 THEN -1 ELSE 1
    IN  [k |-> "num", n |-> sg * (n \div g), d |-> sg * (d \div g), s |-> <<>>]

IntCell(n) == [k |-> "num", n |-> n, d |-> 1, s |-> <<>>]

NaN == [k |-> "nan", n |-> 0, d |-> 1, s |-> <<>>]

StrCell(s) == [k |-> "str", n |-> 0, d |-> 1, s |-> s]

IsNum(c) == c.k = "num"

\* a < b, a <= b on numeric cells
NumLess(a, b) == a.n * b.d < b.n * a.d

NumLeq(a, b) == a.n * b.d <= b.n * a.d

\* numeric a - b, a / b (b # 0)
NumSub(a, b) == Num(a.n * b.d - b.n * a.d, a.d * b.d)

NumDiv(a, b) == Num(a.n * b.d, a.d * b.n)

\* float -> int of astype(int): truncation toward zero
Trunc(c) == IF c.n >= 0 THEN c.n \div c.d ELSE -((-c.n) \div c.d)

(* ------------------------------ strings -------------------------------- *)
\* character codes
ChMinus == 45

ChDot == 46

Ch0 == 48

IsDigit(ch) == ch >= Ch0 /\ ch <= Ch0 + 9

\* decimal digits of a natural number
RECURSIVE NatStr(_)
NatStr(n) == IF n < 10 THEN <<Ch0 + n>> ELSE Append(NatStr(n \div 10), Ch0 + (n % 10))

\* str(int)
IntStr(n) == IF n < 0 THEN <<ChMinus>> \o NatStr(-n) ELSE NatStr(n)

\* str(float) of a float holding a whole number or a half: "9.0", "2.5", "-0.5"
FloatStr(c) ==
    LET t == Trunc(c)
        neg == c.n < 0
        whole == (IF neg THEN <<ChMinus>> ELSE <<>>) \o NatStr(Abs(t))
    IN  whole \o <<ChDot>> \o (IF c.d = 1 THEN <<Ch0>> ELSE <<Ch0 + 5>>)

\* "nan", the text astype(str) gives a missing value
NanStr == <<110, 97, 110>>

\* lexicographic order of strings by character code (Python str <)
RECURSIVE StrLess(_, _)
StrLess(a, b) ==
    IF b = <<>> THEN FALSE
    ELSE IF a = <<>> THEN TRUE
    ELSE IF Head(a) # Head(b) THEN Head(a) < Head(b)
    ELSE StrLess(Tail(a), Tail(b))

RECURSIVE DigitsVal(_)
DigitsVal(s) == IF s = <<>> THEN 0 ELSE 10 * DigitsVal(SubSeq(s, 1, Len(s) - 1)) + (s[Len(s)] - Ch0)

RECURSIVE Pow10(_)
Pow10(e) == IF e = 0 THEN 1 ELSE 10 * Pow10(e - 1)

AllDigits(s) == s # <<>> /\ \A i \in 1..Len(s) : IsDigit(s[i])

\* the number a string spells ([-]digits[.digits]), or NaN when it spells none
ParseNumber(s) ==
    LET neg == s # <<>> /\ Head(s) = ChMinus
        body == IF neg THEN Tail(s) ELSE s
        dots == {i \in 1..Len(body) : body[i] = ChDot}
        sign == IF neg THEN -1 ELSE 1
    IN  IF dots = {}
        THEN IF AllDigits(body) THEN IntCell(sign * DigitsVal(body)) ELSE NaN
        ELSE LET p == CHOOSE i \in dots : TRUE
                 ip == SubSeq(body, 1, p - 1)
                 fp == SubSeq(body, p + 1, Len(body))
             IN  IF Cardinality(dots) = 1 /\ AllDigits(ip) /\ AllDigits(fp)
                 THEN Num(sign * (DigitsVal(ip) * Pow10(Len(fp)) + DigitsVal(fp)), Pow10(Len(fp)))
                 ELSE NaN

\* pd.to_numeric(x, errors='coerce') on one cell
to_numeric(c) == IF c.k = "str" THEN ParseNumber(c.s) ELSE c

\* Series.fillna(0) on one cell
fillna0(c) == IF c.k = "nan" THEN IntCell(0) ELSE c

\* Series.astype(int) on one numeric cell
astype_int(c) == IntCell(Trunc(c))

(* ------------------------------ columns -------------------------------- *)
\* str_cols of convert_data_types
StrCols ==
    {"user_id", "problem_id", "template_id", "skill_id", "skill_name",
     "teacher_id", "student_class_id", "school_id"}

\* int_cols of convert_data_types
IntCols == {"attempt_count", "ms_first_response", "hint_count", "hint_total", "correct"}

\* critical_columns of process_data
CriticalColumns == StrCols \cup {"hint_count", "hint_total"}

\* keep_cols of process_data
KeepCols == StrCols \cup IntCols \cup {"hint_independence"}

\* SortKey with the first two columns swapped
SortKeySwapped == <<"problem_id", "user_id", "ms_first_response">>

\* SortKey without the response time
SortKeyNoMs == <<"user_id", "problem_id">>

\* the sort key of check_sequential_order, most significant column first
SortKey == <<"user_id", "problem_id", "ms_first_response">>

\* default of the max_seconds parameter of normalize_response_time
max_seconds == 3600

(* --------------------------- frame helpers ----------------------------- *)
\* the rows at the positions K, in their order
KeepRows(rows, K) ==
    LET f[i \in 0..Len(rows)] ==
            IF i = 0 THEN <<>>
            ELSE IF i \in K THEN Append(f[i - 1], rows[i]) ELSE f[i - 1]
    IN  f[Len(rows)]

(* ------------------------------- stages -------------------------------- *)
\* DataFrame.drop_duplicates(): a row goes when an earlier row has equal
\* cells in every column (the row label is not compared, NaN equals NaN)
remove_duplicates(rows) ==
    KeepRows(rows, {i \in 1..Len(rows) : \A j \in 1..(i - 1) : rows[j].v # rows[i].v})

\* correct.fillna(0).astype(int)
FillCorrect(c) == astype_int(fillna0(c))

\* dropna(subset=critical_columns), then correct := correct.fillna(0).astype(int)
remove_missing_values(rows, cols, critical) ==
    LET kept == KeepRows(rows, {i \in 1..Len(rows) :
                                  \A c \in critical : rows[i].v[c].k # "nan"})
    IN  IF "correct" \in cols THEN [i \in 1..Len(kept) |-> [kept[i] EXCEPT !.v["correct"] = FillCorrect(@)]] ELSE kept

\* FixHint without the repair
FixHintNone(v) == v

\* FixHint clamping the wrong column
FixHintUp(v) ==
    IF NumLess(v["hint_total"], v["hint_count"])
    THEN [v EXCEPT !["hint_total"] = v["hint_count"]]
    ELSE v

\* hint bound rule on one row: hint_count > hint_total => hint_count := hint_total
FixHint(v) ==
    IF NumLess(v["hint_total"], v["hint_count"])
    THEN [v EXCEPT !["hint_count"] = v["hint_total"]]
    ELSE v

\* boolean domain rule on one cell: not in [0, 1] => (1 if x else 0)
FixCorrect(c) ==
    IF c = IntCell(0) \/ c = IntCell(1) THEN c
    ELSE IF c.n # 0 THEN IntCell(1) ELSE IntCell(0)

fix_logic_errors(rows, cols) ==
    LET h == [i \in 1..Len(rows) |-> [rows[i] EXCEPT !.v = FixHint(@)]]
    IN  IF "correct" \in cols THEN [i \in 1..Len(h) |-> [h[i] EXCEPT !.v["correct"] = FixCorrect(@)]] ELSE h

\* to_numeric(errors='coerce').fillna(0), then values > max_seconds := max_seconds
NormalizeCell(c) ==
    LET x == fillna0(to_numeric(c))
    IN  IF NumLess(IntCell(max_seconds), x) THEN IntCell(max_seconds) ELSE x

normalize_response_time(rows, cols) ==
    IF "ms_first_response" \in cols
    THEN
        [i \in 1..Len(rows) |-> [rows[i] EXCEPT !.v["ms_first_response"] = NormalizeCell(@)]]
    ELSE rows

\* hint_total.replace(0, 1)
EffectiveTotal(t) == IF t.n = 0 THEN IntCell(1) ELSE t

\* HintIndependence as the ratio itself, not its complement
HintIndependenceRatio(hc, ht) == NumDiv(hc, EffectiveTotal(ht))

\* 1 - hint_count / hint_total.replace(0, 1)
HintIndependence(hc, ht) == NumSub(IntCell(1), NumDiv(hc, EffectiveTotal(ht)))

add_hint_independence(rows) ==
    [i \in 1..Len(rows) |->
        [rows[i] EXCEPT !.v =
            [c \in (DOMAIN @) \cup {"hint_independence"} |->
                IF c = "hint_independence"
                THEN HintIndependence(@["hint_count"], @["hint_total"])
                ELSE @[c]]]]

\* the dtype of a column as the frame was built: float64 when it holds no
\* string and some cell is NaN or not a whole number
IsFloatCol(src, col) ==
    /\ \A i \in 1..Len(src) : src[i].v[col].k # "str"
    /\ \E i \in 1..Len(src) : src[i].v[col].k = "nan" \/ src[i].v[col].d # 1

\* Series.astype(str) on one cell
astype_str(c, isFloat) ==
    IF c.k = "str" THEN c
    ELSE IF c.k = "nan" THEN StrCell(NanStr)
    ELSE IF isFloat \/ c.d # 1 THEN StrCell(FloatStr(c))
    ELSE StrCell(IntStr(c.n))

\* to_numeric(errors='coerce').fillna(0).astype(int)
CoerceInt(c) == astype_int(fillna0(to_numeric(c)))

convert_data_types(rows, cols, src) ==
    [i \in 1..Len(rows) |->
        [rows[i] EXCEPT !.v =
            [c \in DOMAIN @ |->
                IF c \in StrCols THEN astype_str(@[c], IsFloatCol(src, c))
                ELSE IF c \in IntCols THEN CoerceInt(@[c])
                ELSE @[c]]]]

\* order of two cells of one column in sort_values (NaN last)
CellLess(a, b) ==
    IF a.k = "nan" THEN FALSE
    ELSE IF b.k = "nan" THEN TRUE
    ELSE IF a.k = "str" /\ b.k = "str" THEN StrLess(a.s, b.s)
    ELSE IF a.k = "num" /\ b.k = "num" THEN NumLess(a, b)
    ELSE a.k = "num"

\* a sorts strictly before b by the columns key[from..]
RECURSIVE KeyLessFrom(_, _, _, _)
KeyLessFrom(a, b, key, from) ==
    IF from > Len(key) THEN FALSE
    ELSE IF CellLess(a.v[key[from]], b.v[key[from]]) THEN TRUE
    ELSE IF CellLess(b.v[key[from]], a.v[key[from]]) THEN FALSE
    ELSE KeyLessFrom(a, b, key, from + 1)

KeyLess(a, b) == KeyLessFrom(a, b, SortKey, 1)

\* r put into the sorted sequence s behind every row that does not sort after it
RECURSIVE Insert(_, _)
Insert(r, s) ==
    IF s = <<>> THEN <<r>>
    ELSE IF KeyLess(r, Head(s)) THEN <<r>> \o s
    ELSE <<Head(s)>> \o Insert(r, Tail(s))

\* df.sort_values(['user_id', 'problem_id', 'ms_first_response']): a stable sort
sort_values(rows) ==
    LET f[i \in 0..Len(rows)] == IF i = 0 THEN <<>> ELSE Insert(rows[i], f[i - 1])
    IN  f[Len(rows)]

\* Series.is_monotonic_increasing of ms_first_response over the rows at G
IsMonotonicIncreasing(rows, G) ==
    \A i \in G : \A j \in G :
        i < j => NumLeq(rows[i].v["ms_first_response"], rows[j].v["ms_first_response"])

\* the issues counter: the (user_id, problem_id) groups that are not monotonic
CountIssues(rows) ==
    LET keys == {<<rows[i].v["user_id"], rows[i].v["problem_id"]>> : i \in 1..Len(rows)}
        Grp(g) == {i \in 1..Len(rows) : <<rows[i].v["user_id"], rows[i].v["problem_id"]>> = g}
    IN  Cardinality({g \in keys : ~IsMonotonicIncreasing(rows, Grp(g))})

\* df[keep_cols]
Project(rows) ==
    [i \in 1..Len(rows) |-> [rows[i] EXCEPT !.v = [c \in KeepCols |-> @[c]]]]

(* ------------------------------- inputs -------------------------------- *)
\* The input sets hold numbers and NaN in hint_count, hint_total and correct,
\* and numbers, NaN and text in ms_first_response.  Text in hint_count or
\* hint_total makes the division of add_hint_independence raise TypeError, and
\* non-numeric text in correct makes astype(int) raise ValueError: such
\* datasets give no output and are left out.
\* the columns of an input dataset: the data model's and one that is not kept
InputCols == (KeepCols \ {"hint_independence"}) \cup {"order_id"}

\* a well-formed input row
DefaultRow ==
    [c \in InputCols |->
        CASE c = "user_id" -> IntCell(9)
          [] c = "problem_id" -> IntCell(1)
          [] c = "template_id" -> IntCell(7)
          [] c = "skill_id" -> IntCell(1)
          [] c = "skill_name" -> StrCell(<<65, 100, 100>>)
          [] c = "teacher_id" -> IntCell(3)
          [] c = "student_class_id" -> IntCell(4)
          [] c = "school_id" -> IntCell(5)
          [] c = "correct" -> IntCell(1)
          [] c = "attempt_count" -> IntCell(1)
          [] c = "ms_first_response" -> IntCell(100)
          [] c = "hint_count" -> IntCell(1)
          [] c = "hint_total" -> IntCell(2)
          [] OTHER -> IntCell(1)]

\* user_id values: "10" sorts before "9" as text
UserVals == {IntCell(9), IntCell(10)}

ProblemVals == {IntCell(1), IntCell(2)}

\* rows that differ in the sort key, in a response time above the clamp and
\* in the column that is not kept
RowsOrder ==
    {[DefaultRow EXCEPT !["user_id"] = u, !["problem_id"] = p,
                        !["ms_first_response"] = m, !["order_id"] = o] :
        u \in UserVals, p \in ProblemVals,
        m \in {IntCell(100), IntCell(4000), IntCell(5000)},
        o \in {IntCell(1)}}

\* rows that differ only in cells the output does not tell apart
RowsDup ==
    {[DefaultRow EXCEPT !["user_id"] = u, !["ms_first_response"] = m, !["order_id"] = o] :
        u \in UserVals,
        m \in {IntCell(100), IntCell(4000), IntCell(5000)},
        o \in {IntCell(1), IntCell(2)}}

\* ms_first_response values: negative, in range, fractional, above the clamp,
\* numeric text, non-numeric text ("abc"), missing
MsVals ==
    {IntCell(-5), IntCell(100), Num(7201, 2), IntCell(4000),
     StrCell(<<50, 53, 48>>), StrCell(<<97, 98, 99>>), NaN}

RowsMs ==
    {[DefaultRow EXCEPT !["user_id"] = u, !["ms_first_response"] = m] :
        u \in UserVals, m \in MsVals}

\* the rows of a dataset that has no ms_first_response column
RowsNoMs ==
    {[c \in InputCols \ {"ms_first_response"} |-> r[c]] :
        r \in {[DefaultRow EXCEPT !["user_id"] = u, !["problem_id"] = p, !["order_id"] = o] :
                  u \in UserVals, p \in ProblemVals, o \in {IntCell(1), IntCell(2)}}}

\* hint_count and hint_total values: negative, zero, whole, fractional
HintVals == {IntCell(-1), IntCell(0), Num(1, 2), IntCell(2), IntCell(4), Num(5, 2)}

RowsHint ==
    {[DefaultRow EXCEPT !["hint_count"] = hc, !["hint_total"] = ht] :
        hc \in HintVals, ht \in HintVals}

\* correct values: missing, negative, 0, 1, a code, fractions
CorrectVals == {NaN, IntCell(-1), IntCell(0), Num(1, 2), IntCell(1), IntCell(2), Num(5, 2)}

RowsCorrect ==
    {[DefaultRow EXCEPT !["correct"] = c, !["skill_id"] = k] :
        c \in CorrectVals, k \in {IntCell(1), NaN}}

\* process_data is called with a dataset of at most max rows drawn from
\* RowSet, labelled 0, 1, ... (a RangeIndex)
InitWith(RowSet, cols, max) ==
    /\ \E n \in 0..max : \E rows \in [1..n -> RowSet] :
          input = [i \in 1..n |-> [index |-> i - 1, v |-> rows[i]]]
    /\ df = input
    /\ columns = cols
    /\ pc = "start"
    /\ run = 1
    /\ issues = 0
    /\ error = "none"

Init == InitWith(RowsOrder, InputCols, MaxRows)

InitDup == InitWith(RowsDup, InputCols, MaxValRows)

InitMs ==
    \/ InitWith(RowsMs, InputCols, MaxValRows)
    \/ InitWith(RowsNoMs, InputCols \ {"ms_first_response"}, MaxValRows)

InitHint == InitWith(RowsHint, InputCols, MaxValRows)

InitCorrect == InitWith(RowsCorrect, InputCols, MaxValRows)

(* ------------------------------- actions ------------------------------- *)
\* df = remove_duplicates(df)
RemoveDuplicates ==
    /\ pc = "start"
    /\ df' = remove_duplicates(df)
    /\ pc' = "deduped"
    /\ UNCHANGED <<input, columns, run, issues, error>>

\* df = remove_missing_values(df, critical_columns)
RemoveMissingValues ==
    /\ pc = "deduped"
    /\ df' = remove_missing_values(df, columns, CriticalColumns)
    /\ pc' = "filtered"
    /\ UNCHANGED <<input, columns, run, issues, error>>

\* df = fix_logic_errors(df)
FixLogicErrors ==
    /\ pc = "filtered"
    /\ df' = fix_logic_errors(df, columns)
    /\ pc' = "fixed"
    /\ UNCHANGED <<input, columns, run, issues, error>>

\* df = normalize_response_time(df)
NormalizeResponseTime ==
    /\ pc = "fixed"
    /\ df' = normalize_response_time(df, columns)
    /\ pc' = "normalized"
    /\ UNCHANGED <<input, columns, run, issues, error>>

\* df = add_hint_independence(df)
AddHintIndependence ==
    /\ pc = "normalized"
    /\ df' = add_hint_independence(df)
    /\ columns' = columns \cup {"hint_independence"}
    /\ pc' = "featured"
    /\ UNCHANGED <<input, run, issues, error>>

\* df = convert_data_types(df)
ConvertDataTypes ==
    /\ pc = "featured"
    /\ df' = convert_data_types(df, columns, input)
    /\ pc' = "converted"
    /\ UNCHANGED <<input, columns, run, issues, error>>

\* df = check_sequential_order(df); sort_values raises KeyError on a sort
\* column the frame does not have
CheckSequentialOrder ==
    /\ pc = "converted"
    /\ IF \A i \in 1..Len(SortKey) : SortKey[i] \in columns
       THEN /\ df' = sort_values(df)
            /\ issues' = CountIssues(df')
            /\ pc' = "checked"
            /\ error' = error
       ELSE /\ pc' = "raised"
            /\ error' = "KeyError"
            /\ UNCHANGED <<df, issues>>
    /\ UNCHANGED <<input, columns, run>>

\* df = df[keep_cols]; return df
ProjectColumns ==
    /\ pc = "checked"
    /\ IF KeepCols \subseteq columns
       THEN /\ df' = Project(df)
            /\ columns' = KeepCols
            /\ pc' = "done"
            /\ error' = error
       ELSE /\ pc' = "raised"
            /\ error' = "KeyError"
            /\ UNCHANGED <<df, columns>>
    /\ UNCHANGED <<input, run, issues>>

\* process_data applied to its own output
Rerun ==
    /\ pc = "done"
    /\ run = 1
    /\ input' = df
    /\ run' = 2
    /\ issues' = 0
    /\ pc' = "start"
    /\ UNCHANGED <<df, columns, error>>

Next ==
    \/ RemoveDuplicates
    \/ RemoveMissingValues
    \/ FixLogicErrors
    \/ NormalizeResponseTime
    \/ AddHintIndependence
    \/ ConvertDataTypes
    \/ CheckSequentialOrder
    \/ ProjectColumns
    \/ Rerun

Spec == Init /\ [][Next]_vars

SpecDup == InitDup /\ [][Next]_vars

SpecMs == InitMs /\ [][Next]_vars

SpecHint == InitHint /\ [][Next]_vars

SpecCorrect == InitCorrect /\ [][Next]_vars

(* ------------------------------ type check ----------------------------- *)
TypeOK ==
    /\ pc \in {"start", "deduped", "filtered", "fixed", "normalized", "featured",
               "converted", "checked", "done", "raised"}
    /\ run \in {1, 2}
    /\ \A i \in 1..Len(df) : DOMAIN df[i].v = columns

(* ------------------------------- claims -------------------------------- *)
\* the input row an output row comes from: the one with its row label
Src(r) == input[CHOOSE j \in 1..Len(input) : input[j].index = r.index].v

Rows == 1..Len(df)

Zero == IntCell(0)

One == IntCell(1)

\* the smaller of two numeric cells
NumMin(a, b) == IF NumLess(b, a) THEN b ELSE a

\* 1 - hc / effective_hint_total, as the specification words it
SpecIndependence(hc, ht) ==
    NumSub(One, NumDiv(hc, IF ht = Zero THEN One ELSE ht))

\* a sorts no later than b in the lexicographic order of
\* (user_id, problem_id, ms_first_response) of two output rows
LexLeq(a, b) ==
    LET ua == a.v["user_id"].s
        ub == b.v["user_id"].s
        pa == a.v["problem_id"].s
        pb == b.v["problem_id"].s
    IN  \/ StrLess(ua, ub)
        \/ ua = ub /\ StrLess(pa, pb)
        \/ ua = ub /\ pa = pb /\ NumLeq(a.v["ms_first_response"], b.v["ms_first_response"])

InOrder(rows) == \A i \in 1..Len(rows) : \A j \in 1..Len(rows) : i < j => LexLeq(rows[i], rows[j])

\* the same rows, each as often
SameRows(a, b) ==
    /\ Len(a) = Len(b)
    /\ \A i \in 1..Len(a) :
          Cardinality({j \in 1..Len(a) : a[j] = a[i]}) = Cardinality({j \in 1..Len(b) : b[j] = a[i]})

\* C1: process_data applied to its own output returns that output: the same
\* rows with the same values in the same order.
C1_Idempotent == (pc = "done" /\ run = 2) => df = input

\* C2: no two distinct rows of the output of process_data agree in all of the
\* 14 output columns.
C2_NoDuplicateRows ==
    pc = "done" => \A i \in Rows : \A j \in Rows : i # j => df[i].v # df[j].v

\* C3: every row of the output has 0 <= ms_first_response <= max_seconds.
C3_ResponseTimeInRange ==
    pc = "done" =>
        \A i \in Rows : /\ NumLeq(Zero, df[i].v["ms_first_response"])
                        /\ NumLeq(df[i].v["ms_first_response"], IntCell(max_seconds))

\* C4 as claimed: in every output row hint_count is min(input hint_count,
\* input hint_total), hint_total is the input hint_total, and
\* hint_count <= hint_total.
C4_HintClampExact ==
    pc = "done" =>
        \A i \in Rows :
            /\ df[i].v["hint_count"] = NumMin(Src(df[i])["hint_count"], Src(df[i])["hint_total"])
            /\ df[i].v["hint_total"] = Src(df[i])["hint_total"]
            /\ NumLeq(df[i].v["hint_count"], df[i].v["hint_total"])

\* C4 amended: in every output row hint_count is min(input hint_count, input
\* hint_total) truncated toward zero, hint_total is the input hint_total
\* truncated toward zero, and hint_count <= hint_total.
C4_HintClampTruncated ==
    pc = "done" =>
        \A i \in Rows :
            /\ df[i].v["hint_count"] =
                   IntCell(Trunc(NumMin(Src(df[i])["hint_count"], Src(df[i])["hint_total"])))
            /\ df[i].v["hint_total"] = IntCell(Trunc(Src(df[i])["hint_total"]))
            /\ NumLeq(df[i].v["hint_count"], df[i].v["hint_total"])

\* C4 witness: an output row whose input hint_count exceeded a fractional
\* input hint_total, so that the clamp and the truncation both acted
C4_Witness ==
    /\ pc = "done"
    /\ \E i \in Rows :
          /\ NumLess(Src(df[i])["hint_total"], Src(df[i])["hint_count"])
          /\ Src(df[i])["hint_total"].d # 1
          /\ df[i].v["hint_count"] # Src(df[i])["hint_count"]

\* C5: in every output row correct is 1 when the input correct is non-zero
\* and not missing, and 0 when it is 0 or missing.
C5_BooleanCoercion ==
    pc = "done" =>
        \A i \in Rows :
            df[i].v["correct"] =
                (IF Src(df[i])["correct"].k = "nan" \/ Src(df[i])["correct"].n = 0
                 THEN Zero ELSE One)

\* C6 as claimed: in every output row hint_independence is
\* 1 - hint_count / effective_hint_total of that row's own hint_count and
\* hint_total.
C6_FeatureFromOutputRow ==
    pc = "done" =>
        \A i \in Rows :
            df[i].v["hint_independence"] =
                SpecIndependence(df[i].v["hint_count"], df[i].v["hint_total"])

\* C6 amended: the relation holds in every output row whose input hint_count
\* and hint_total are whole numbers (the feature is derived from the values
\* before the integer coercion truncates them).
C6_FeatureFromWholeCounts ==
    pc = "done" =>
        \A i \in Rows :
            (Src(df[i])["hint_count"].d = 1 /\ Src(df[i])["hint_total"].d = 1) =>
                df[i].v["hint_independence"] =
                    SpecIndependence(df[i].v["hint_count"], df[i].v["hint_total"])

\* C6 witness: an output with a row 2 of 4 hints (0.5) and a row 0 of 0
\* hints (1, the effective total being 1)
C6_Witness ==
    /\ pc = "done"
    /\ \E i \in Rows :
          /\ df[i].v["hint_count"] = IntCell(2)
          /\ df[i].v["hint_total"] = IntCell(4)
          /\ df[i].v["hint_independence"] = Num(1, 2)
    /\ \E i \in Rows :
          /\ df[i].v["hint_count"] = Zero
          /\ df[i].v["hint_total"] = Zero
          /\ Src(df[i])["hint_total"] = Zero
          /\ df[i].v["hint_independence"] = One

\* hint_count <= effective_hint_total in an output row
WithinEffectiveTotal(v) ==
    NumLeq(v["hint_count"], IF v["hint_total"] = Zero THEN One ELSE v["hint_total"])

InUnitInterval(c) == NumLeq(Zero, c) /\ NumLeq(c, One)

\* C7 as claimed: every output row with hint_count <= effective_hint_total
\* has hint_independence in [0,1], whatever the input counts were.
C7_IndependenceInUnitInterval ==
    pc = "done" =>
        \A i \in Rows :
            WithinEffectiveTotal(df[i].v) => InUnitInterval(df[i].v["hint_independence"])

\* C7 amended: every output row with hint_count <= effective_hint_total whose
\* input hint_count is not negative has hint_independence in [0,1].
C7_IndependenceOfNonNegativeCount ==
    pc = "done" =>
        \A i \in Rows :
            (WithinEffectiveTotal(df[i].v) /\ NumLeq(Zero, Src(df[i])["hint_count"])) =>
                InUnitInterval(df[i].v["hint_independence"])

\* C7 witness: an output row whose non-negative input hint_count exceeded
\* hint_total and was clamped before the feature was derived
C7_Witness ==
    /\ pc = "done"
    /\ run = 1
    /\ \E i \in Rows :
          /\ NumLess(Src(df[i])["hint_total"], Src(df[i])["hint_count"])
          /\ NumLess(Zero, Src(df[i])["hint_total"])
          /\ WithinEffectiveTotal(df[i].v)
          /\ df[i].v["hint_independence"] = Zero

\* C8: on a dataset without an ms_first_response column process_data does
\* not raise.
C8_NoMsColumnCompletes == "ms_first_response" \notin columns => pc # "raised"

\* C9: check_sequential_order returns the rows it was given, each as often and
\* unaltered, in non-decreasing (user_id, problem_id, ms_first_response)
\* order, and the output of process_data is in that order.
C9_SortedPermutation ==
    [][/\ (pc = "converted" /\ pc' = "checked") => (SameRows(df, df') /\ InOrder(df'))
       /\ pc' = "done" => InOrder(df')]_vars

\* C9 witness: an output of three rows that is not in the order of the input
C9_Witness ==
    /\ pc = "done"
    /\ run = 1
    /\ Len(df) = 3
    /\ df[1].index > df[3].index
    /\ df[1].v["user_id"] # df[3].v["user_id"]

\* C10: inside process_data the violation counter of check_sequential_order
\* is 0.
C10_NoOrderingViolation == pc \in {"checked", "done"} => issues = 0

\* C10 witness: the check has run on a (user_id, problem_id) group whose rows
\* came in decreasing ms_first_response order
C10_Witness ==
    /\ pc = "checked"
    /\ \E i \in Rows : \E j \in Rows :
          /\ i < j
          /\ df[i].v["user_id"] = df[j].v["user_id"]
          /\ df[i].v["problem_id"] = df[j].v["problem_id"]
          /\ NumLess(df[i].v["ms_first_response"], df[j].v["ms_first_response"])
          /\ df[i].index > df[j].index

====
